---- MODULE Spec2Model ----
(***************************************************************************)
(* soft-error: wrappers that run a handler and turn a raised error or a    *)
(* rejected promise into a return value (null, or a {value, error, ok}     *)
(* record).  The model follows src/index.ts: isPromise, _try(options),     *)
(* _catch(handler), trySync, catchSync, tryAsync, catchAsync, and the     *)
(* selectors _try(runTime) and _catch(runTime).                            *)
(*                                                                         *)
(* JavaScript runs each synchronous stretch of code to completion, so a    *)
(* synchronous wrapper is one action; an async function or a .then()       *)
(* continuation is one action per stretch between two suspension points,   *)
(* and the settling of a handler's or callback's promise is an action of   *)
(* the environment.  A deferred value is a promise: its then() returns a   *)
(* promise and runs one of its two reactions, once, after it has settled.  *)
(***************************************************************************)
EXTENDS Naturals, Sequences, FiniteSets

\* Number of wrapper invocations of one run, over all inputs (Spec).
MaxCalls == 1

(* Number of direct calls of isPromise in one run (SpecIsPromise).          *)
MaxProbes == 2

(* Number of wrapper invocations of one run that may be in flight together, *)
(* over the inputs of SpecConcurrent.                                       *)
MaxConcurrent == 2

Calls == 1..(IF MaxCalls > MaxConcurrent THEN MaxCalls ELSE MaxConcurrent)

-----------------------------------------------------------------------------
(* JavaScript values: ty is the result of typeof, then is typeof v.then.   *)

NULL      == [ty |-> "object",    id |-> "null",      then |-> "undefined"]
UNDEFINED == [ty |-> "undefined", id |-> "undefined", then |-> "undefined"]
ZERO      == [ty |-> "number",    id |-> "0",         then |-> "undefined"]
ONE       == [ty |-> "number",    id |-> "1",         then |-> "undefined"]
ERR       == [ty |-> "object",    id |-> "Error:x",   then |-> "undefined"]
CBERR     == [ty |-> "object",    id |-> "Error:cb",  then |-> "undefined"]
\* the promise a handler (or an error callback) creates and returns
PROMISE   == [ty |-> "object",    id |-> "promise",   then |-> "function"]

\* !!v
Truthy(v) == v.id \notin {"null", "undefined", "0", "false", "", "NaN"}

\* src/index.ts:1-7
isPromise(obj) ==
    /\ Truthy(obj)
    /\ obj.ty = "object" \/ obj.ty = "function"
    /\ obj.then = "function"

\* What a handler may return or resolve to, and what it may throw or reject with.
ReturnVals == {NULL, ONE}
ThrowVals  == {NULL, ZERO, ERR}

(* A handler: callable or an already created promise (tryAsync/catchAsync   *)
(* accept both); mode is how one run of it ends: "return" v, "throw" e,      *)
(* or it returns a promise that later fulfills ("resolve") or rejects        *)
(* ("reject").  A handler that is itself a promise only has the last two.    *)
Handlers ==
    [callable : {TRUE}, mode : {"return", "resolve"}, val : ReturnVals]
      \cup [callable : {TRUE}, mode : {"throw", "reject"}, val : ThrowVals]
PromiseHandlers ==
    [callable : {FALSE}, mode : {"resolve"}, val : ReturnVals]
      \cup [callable : {FALSE}, mode : {"reject"}, val : ThrowVals]

(* An error callback: absent, returns undefined, throws CBERR, or returns a *)
(* promise that fulfills / rejects with CBERR.  "capture" is the closure of *)
(* catchSync / catchAsync, (err) => { error = err }.                        *)
Callbacks == {"none", "ok", "throw", "asyncOk", "asyncReject"}

(* The inputs of SpecConcurrent: one value and one error for the handlers,  *)
(* an error callback that returns a promise.                                *)
ConcurrentVals == {ONE, ERR}
ConcurrentHandlers == {fn \in Handlers : fn.val \in ConcurrentVals}
ConcurrentPromiseHandlers == {fn \in PromiseHandlers : fn.val \in ConcurrentVals}
ConcurrentCallbacks == {"asyncOk"}

NoHandler == [callable |-> TRUE, mode |-> "return", val |-> NULL]

\* results
Returned(v)  == [kind |-> "value",     val |-> v]
Raised(e)    == [kind |-> "raised",    val |-> e]
Pending      == [kind |-> "pending",   val |-> NULL]
Fulfilled(v) == [kind |-> "fulfilled", val |-> v]
Rejected(e)  == [kind |-> "rejected",  val |-> e]
NoResult     == [kind |-> "none",      val |-> NULL]

\* src/index.ts:55-71
CatchResult(value, error, ok) == [value |-> value, error |-> error, ok |-> ok]

VARIABLES
    calls,   \* calls[c]: the invocation c of a wrapper
    error,   \* error[i]: the `let error` of catchSync / catchAsync
    sel,     \* the last call of a selector, _try(runTime) or _catch(runTime)
    probes   \* the calls of isPromise made directly, in order

vars == <<calls, error, sel, probes>>

NoSelection == [selector |-> "none", runTime |-> "none", out |-> NoResult]

(* api, h, cb: the wrapper called and its arguments; pc: where the call is  *)
(* suspended; rtn: what the handler returned; hp, cp: the state of the      *)
(* promise made by the handler / by the error callback; tryP: the promise   *)
(* of the tryAsync run (catchAsync awaits it); out: what the wrapper gave   *)
(* its caller; hRuns: how often the handler ran; cbArgs: the arguments of   *)
(* the calls of the error callback, in order.                               *)
Idle ==
    [api |-> "none", h |-> NoHandler, cb |-> "none", pc |-> "idle",
     rtn |-> UNDEFINED, hp |-> NoResult, cp |-> NoResult, tryP |-> NoResult,
     out |-> NoResult, hRuns |-> 0, cbArgs |-> <<>>]

Init ==
    /\ calls = [c \in Calls |-> Idle]
    /\ error = [c \in Calls |-> NULL]
    /\ sel = NoSelection
    /\ probes = <<>>

\* invocations are numbered in the order they are made
CanInvoke(c) ==
    /\ calls[c].pc = "idle"
    /\ \A d \in Calls : d < c => calls[d].pc # "idle"

-----------------------------------------------------------------------------
(* The caller's code.                                                       *)

\* fn(): one run of a callable handler
handlerRun(fn) ==
    CASE fn.mode = "return" -> Returned(fn.val)
      [] fn.mode = "throw"  -> Raised(fn.val)
      [] OTHER              -> Returned(PROMISE)

\* errorHandler(err): one run of an error callback that is present
errorHandlerRun(errorHandler) ==
    CASE errorHandler \in {"ok", "capture"} -> Returned(UNDEFINED)
      [] errorHandler = "throw"             -> Raised(CBERR)
      [] OTHER                              -> Returned(PROMISE)

\* the promise a value stands for, when it is one
PromiseOf(v) == IF isPromise(v) THEN Pending ELSE NoResult

\* mutant: `error` declared once for the module instead of once a call
ErrorCellShared(c) == 1

\* the cell of `error` the invocation c declares with `let error`
ErrorCell(c) == c

\* (err) => { error = err }, for the calls cbArgs of the closure of c
Capture(c, cbArgs, err0) ==
    IF cbArgs = <<>> THEN err0
    ELSE [err0 EXCEPT ![ErrorCell(c)] = cbArgs[Len(cbArgs)]]

-----------------------------------------------------------------------------
(* The synchronous wrappers.                                                *)

\* mutant: the try block drops the handler's value
trySyncNoReturn(fn, errorHandler) ==
    LET result == handlerRun(fn) IN
    IF result.kind = "value"
    THEN [out |-> Returned(NULL), rtn |-> result.val, hRuns |-> 1,
          cbArgs |-> <<>>, cp |-> NoResult]
    ELSE IF errorHandler = "none"
    THEN [out |-> Returned(NULL), rtn |-> UNDEFINED, hRuns |-> 1,
          cbArgs |-> <<>>, cp |-> NoResult]
    ELSE LET k == errorHandlerRun(errorHandler) IN
         [out |-> IF k.kind = "raised" THEN Raised(k.val) ELSE Returned(NULL),
          rtn |-> UNDEFINED, hRuns |-> 1, cbArgs |-> <<result.val>>,
          cp |-> IF k.kind = "value" THEN PromiseOf(k.val) ELSE NoResult]

\* mutant: a returned promise is replaced by one derived from it
trySyncDetect(fn, errorHandler) ==
    LET result == handlerRun(fn) IN
    IF result.kind = "value"
    THEN [out |-> IF isPromise(result.val) THEN Pending
                  ELSE Returned(result.val),
          rtn |-> result.val, hRuns |-> 1, cbArgs |-> <<>>, cp |-> NoResult]
    ELSE IF errorHandler = "none"
    THEN [out |-> Returned(NULL), rtn |-> UNDEFINED, hRuns |-> 1,
          cbArgs |-> <<>>, cp |-> NoResult]
    ELSE LET k == errorHandlerRun(errorHandler) IN
         [out |-> IF k.kind = "raised" THEN Raised(k.val) ELSE Returned(NULL),
          rtn |-> UNDEFINED, hRuns |-> 1, cbArgs |-> <<result.val>>,
          cp |-> IF k.kind = "value" THEN PromiseOf(k.val) ELSE NoResult]

\* src/index.ts:143-154
trySync(fn, errorHandler) ==
    LET result == handlerRun(fn) IN
    IF result.kind = "value"
    THEN [out |-> Returned(result.val), rtn |-> result.val, hRuns |-> 1,
          cbArgs |-> <<>>, cp |-> NoResult]
    ELSE IF errorHandler = "none"
    THEN [out |-> Returned(NULL), rtn |-> UNDEFINED, hRuns |-> 1,
          cbArgs |-> <<>>, cp |-> NoResult]
    ELSE LET k == errorHandlerRun(errorHandler) IN
         [out |-> IF k.kind = "raised" THEN Raised(k.val) ELSE Returned(NULL),
          rtn |-> UNDEFINED, hRuns |-> 1, cbArgs |-> <<result.val>>,
          cp |-> IF k.kind = "value" THEN PromiseOf(k.val) ELSE NoResult]

\* mutant: the failure record keeps ok: true
catchSyncOkTrue(c, fn) ==
    LET t   == trySync(fn, "capture")
        err == Capture(c, t.cbArgs, [error EXCEPT ![ErrorCell(c)] = NULL])
        e   == err[ErrorCell(c)]
    IN  [out |-> IF t.out.kind = "raised" THEN t.out
                 ELSE IF Truthy(e) THEN Returned(CatchResult(NULL, e, TRUE))
                 ELSE Returned(CatchResult(t.out.val, NULL, TRUE)),
         rtn |-> t.rtn, hRuns |-> t.hRuns, cbArgs |-> t.cbArgs, error |-> err]

\* src/index.ts:207-218, for the invocation c
catchSync(c, fn) ==
    LET t   == trySync(fn, "capture")
        err == Capture(c, t.cbArgs, [error EXCEPT ![ErrorCell(c)] = NULL])
        e   == err[ErrorCell(c)]
    IN  [out |-> IF t.out.kind = "raised" THEN t.out
                 ELSE IF Truthy(e) THEN Returned(CatchResult(NULL, e, FALSE))
                 ELSE Returned(CatchResult(t.out.val, NULL, TRUE)),
         rtn |-> t.rtn, hRuns |-> t.hRuns, cbArgs |-> t.cbArgs, error |-> err]

InvokeTrySync(c, fn, errorHandler) ==
    /\ CanInvoke(c)
    /\ LET t == trySync(fn, errorHandler) IN
       calls' = [calls EXCEPT ![c] =
                   [@ EXCEPT !.api = "trySync", !.h = fn, !.cb = errorHandler,
                             !.pc = "done", !.rtn = t.rtn,
                             !.hp = PromiseOf(t.rtn), !.cp = t.cp,
                             !.out = t.out, !.hRuns = t.hRuns,
                             !.cbArgs = t.cbArgs]]
    /\ UNCHANGED <<error, sel, probes>>

InvokeCatchSync(c, fn) ==
    /\ CanInvoke(c)
    /\ LET t == catchSync(c, fn) IN
       /\ calls' = [calls EXCEPT ![c] =
                      [@ EXCEPT !.api = "catchSync", !.h = fn, !.cb = "capture",
                                !.pc = "done", !.rtn = t.rtn,
                                !.hp = PromiseOf(t.rtn), !.out = t.out,
                                !.hRuns = t.hRuns, !.cbArgs = t.cbArgs]]
       /\ error' = t.error
    /\ UNCHANGED <<sel, probes>>

-----------------------------------------------------------------------------
(* The asynchronous wrappers.  tryAsync runs as itself or inside            *)
(* catchAsync, whose closure is then its error callback.                    *)

\* what follows the settling of the promise tryAsync returned
AfterTry(api) == IF api = "catchAsync" THEN "awaitTry" ELSE "done"

\* the promise of tryAsync is the wrapper's result unless catchAsync awaits it
TryOut(api, p) == IF api = "catchAsync" THEN Pending ELSE p

\* mutant: the callback is called and its promise is left alone
tryAsyncCatchNoAwait(api, errorHandler, err) ==
    IF errorHandler = "none"
    THEN [pc |-> "awaitCb", tryP |-> Pending, cp |-> NoResult, cbArgs |-> <<>>]
    ELSE LET k == errorHandlerRun(errorHandler) IN
         IF k.kind = "raised"
         THEN [pc |-> AfterTry(api), tryP |-> Rejected(k.val), cp |-> NoResult,
               cbArgs |-> <<err>>]
         ELSE [pc |-> AfterTry(api), tryP |-> Fulfilled(NULL),
               cp |-> PromiseOf(k.val), cbArgs |-> <<err>>]

\* src/index.ts:273-274: catch (err) { await errorHandler?.(err)
tryAsyncCatch(api, errorHandler, err) ==
    IF errorHandler = "none"
    THEN [pc |-> "awaitCb", tryP |-> Pending, cp |-> NoResult, cbArgs |-> <<>>]
    ELSE LET k == errorHandlerRun(errorHandler) IN
         IF k.kind = "raised"
         THEN [pc |-> AfterTry(api), tryP |-> Rejected(k.val), cp |-> NoResult,
               cbArgs |-> <<err>>]
         ELSE [pc |-> "awaitCb", tryP |-> Pending, cp |-> PromiseOf(k.val),
               cbArgs |-> <<err>>]

\* mutant: a handler that raised is run a second time before giving up
tryAsyncRetry(api, fn, errorHandler) ==
    LET promise == IF fn.callable THEN handlerRun(fn) ELSE Returned(PROMISE)
        hRuns   == IF fn.callable THEN 1 ELSE 0
    IN  IF promise.kind = "value"
        THEN [pc |-> "awaitHandler", rtn |-> promise.val,
              hp |-> PromiseOf(promise.val), tryP |-> Pending,
              cp |-> NoResult, cbArgs |-> <<>>, hRuns |-> hRuns]
        ELSE LET k == tryAsyncCatch(api, errorHandler, promise.val) IN
             [pc |-> k.pc, rtn |-> UNDEFINED, hp |-> NoResult, tryP |-> k.tryP,
              cp |-> k.cp, cbArgs |-> k.cbArgs, hRuns |-> hRuns + 1]

\* src/index.ts:269-271: the run of tryAsync up to its first await
tryAsync(api, fn, errorHandler) ==
    LET promise == IF fn.callable THEN handlerRun(fn) ELSE Returned(PROMISE)
        hRuns   == IF fn.callable THEN 1 ELSE 0
    IN  IF promise.kind = "value"
        THEN [pc |-> "awaitHandler", rtn |-> promise.val,
              hp |-> PromiseOf(promise.val), tryP |-> Pending,
              cp |-> NoResult, cbArgs |-> <<>>, hRuns |-> hRuns]
        ELSE LET k == tryAsyncCatch(api, errorHandler, promise.val) IN
             [pc |-> k.pc, rtn |-> UNDEFINED, hp |-> NoResult, tryP |-> k.tryP,
              cp |-> k.cp, cbArgs |-> k.cbArgs, hRuns |-> hRuns]

InvokeTryAsync(c, fn, errorHandler) ==
    /\ CanInvoke(c)
    /\ LET t == tryAsync("tryAsync", fn, errorHandler) IN
       calls' = [calls EXCEPT ![c] =
                   [@ EXCEPT !.api = "tryAsync", !.h = fn, !.cb = errorHandler,
                             !.pc = t.pc, !.rtn = t.rtn, !.hp = t.hp,
                             !.cp = t.cp, !.tryP = t.tryP,
                             !.out = TryOut("tryAsync", t.tryP),
                             !.hRuns = t.hRuns, !.cbArgs = t.cbArgs]]
    /\ UNCHANGED <<error, sel, probes>>

\* src/index.ts:307-313: the run of catchAsync up to its await
InvokeCatchAsync(c, fn) ==
    /\ CanInvoke(c)
    /\ LET t == tryAsync("catchAsync", fn, "capture") IN
       /\ calls' = [calls EXCEPT ![c] =
                      [@ EXCEPT !.api = "catchAsync", !.h = fn, !.cb = "capture",
                                !.pc = t.pc, !.rtn = t.rtn, !.hp = t.hp,
                                !.cp = t.cp, !.tryP = t.tryP,
                                !.out = TryOut("catchAsync", t.tryP),
                                !.hRuns = t.hRuns, !.cbArgs = t.cbArgs]]
       /\ error' = Capture(c, t.cbArgs, [error EXCEPT ![ErrorCell(c)] = NULL])
    /\ UNCHANGED <<sel, probes>>

\* what `await promise` yields once it can
Awaited(call) == IF isPromise(call.rtn) THEN call.hp ELSE Fulfilled(call.rtn)

\* src/index.ts:271-275: tryAsync resumes from `await promise`
TryAsyncResume(c) ==
    LET call == calls[c]
        a    == Awaited(call)
    IN  /\ call.api \in {"tryAsync", "catchAsync"}
        /\ call.pc = "awaitHandler"
        /\ a.kind # "pending"
        /\ IF a.kind = "fulfilled"
           THEN /\ calls' = [calls EXCEPT ![c] =
                               [@ EXCEPT !.pc = AfterTry(call.api),
                                         !.tryP = Fulfilled(a.val),
                                         !.out = TryOut(call.api, Fulfilled(a.val))]]
                /\ UNCHANGED <<error, sel, probes>>
           ELSE LET k == tryAsyncCatch(call.api, call.cb, a.val) IN
                /\ calls' = [calls EXCEPT ![c] =
                               [@ EXCEPT !.pc = k.pc, !.tryP = k.tryP,
                                         !.out = TryOut(call.api, k.tryP),
                                         !.cp = k.cp, !.cbArgs = k.cbArgs]]
                /\ error' = IF call.cb = "capture"
                             THEN Capture(c, k.cbArgs, error) ELSE error
                /\ UNCHANGED <<sel, probes>>

\* src/index.ts:274-275: tryAsync resumes from `await errorHandler?.(err)`
TryAsyncResumeCb(c) ==
    LET call == calls[c]
        p    == IF call.cp.kind = "rejected"
                THEN Rejected(call.cp.val) ELSE Fulfilled(NULL)
    IN  /\ call.api \in {"tryAsync", "catchAsync"}
        /\ call.pc = "awaitCb"
        /\ call.cp.kind # "pending"
        /\ calls' = [calls EXCEPT ![c] =
                       [@ EXCEPT !.pc = AfterTry(call.api), !.tryP = p,
                                 !.out = TryOut(call.api, p)]]
        /\ UNCHANGED <<error, sel, probes>>

\* src/index.ts:311-317: catchAsync resumes from `await tryAsync(...)`
catchAsync(c, tryP) ==
    IF tryP.kind = "rejected" THEN Rejected(tryP.val)
    ELSE IF Truthy(error[ErrorCell(c)])
    THEN Fulfilled(CatchResult(NULL, error[ErrorCell(c)], FALSE))
    ELSE Fulfilled(CatchResult(tryP.val, NULL, TRUE))

CatchAsyncResume(c) ==
    /\ calls[c].api = "catchAsync"
    /\ calls[c].pc = "awaitTry"
    /\ calls' = [calls EXCEPT ![c] =
                   [@ EXCEPT !.pc = "done", !.out = catchAsync(c, calls[c].tryP)]]
    /\ UNCHANGED <<error, sel, probes>>

\* the environment settles the promise the handler made (or is)
SettleHandler(c) ==
    /\ calls[c].hp.kind = "pending"
    /\ calls' = [calls EXCEPT ![c].hp =
                   IF calls[c].h.mode = "resolve"
                   THEN Fulfilled(calls[c].h.val) ELSE Rejected(calls[c].h.val)]
    /\ UNCHANGED <<error, sel, probes>>

\* the environment settles the promise the error callback returned
SettleCallback(c) ==
    /\ calls[c].cp.kind = "pending"
    /\ calls' = [calls EXCEPT ![c].cp =
                   IF calls[c].cb = "asyncOk"
                   THEN Fulfilled(UNDEFINED) ELSE Rejected(CBERR)]
    /\ UNCHANGED <<error, sel, probes>>

-----------------------------------------------------------------------------
(* The auto-detecting wrappers.                                             *)

\* mutant: the failure path returns null without calling onError
onErrorSkipped(onError, err) ==
    [out |-> Returned(NULL), cp |-> NoResult, cbArgs |-> <<>>]

\* src/index.ts:41-44 and 49-51: options.onError?.(error); return null
onErrorReturnNull(onError, err) ==
    IF onError = "none"
    THEN [out |-> Returned(NULL), cp |-> NoResult, cbArgs |-> <<>>]
    ELSE LET k == errorHandlerRun(onError) IN
         [out |-> IF k.kind = "raised" THEN Raised(k.val) ELSE Returned(NULL),
          cp |-> IF k.kind = "value" THEN PromiseOf(k.val) ELSE NoResult,
          cbArgs |-> <<err>>]

\* mutant: no isPromise test, the handler's promise is returned as it is
_tryNoDetect(handler, onError) ==
    LET rtn == handlerRun(handler) IN
    IF rtn.kind = "value"
    THEN [pc |-> "done", out |-> Returned(rtn.val), rtn |-> rtn.val,
          hp |-> PromiseOf(rtn.val), cp |-> NoResult, cbArgs |-> <<>>,
          hRuns |-> 1]
    ELSE LET k == onErrorReturnNull(onError, rtn.val) IN
         [pc |-> "done", out |-> k.out, rtn |-> UNDEFINED, hp |-> NoResult,
          cp |-> k.cp, cbArgs |-> k.cbArgs, hRuns |-> 1]

\* src/index.ts:34-53: the run of _try(options) up to its return
_try(handler, onError) ==
    LET rtn == handlerRun(handler) IN
    IF rtn.kind = "value"
    THEN IF isPromise(rtn.val)
         THEN [pc |-> "then", out |-> Pending, rtn |-> rtn.val, hp |-> Pending,
               cp |-> NoResult, cbArgs |-> <<>>, hRuns |-> 1]
         ELSE [pc |-> "done", out |-> Returned(rtn.val), rtn |-> rtn.val,
               hp |-> NoResult, cp |-> NoResult, cbArgs |-> <<>>, hRuns |-> 1]
    ELSE LET k == onErrorReturnNull(onError, rtn.val) IN
         [pc |-> "done", out |-> k.out, rtn |-> UNDEFINED, hp |-> NoResult,
          cp |-> k.cp, cbArgs |-> k.cbArgs, hRuns |-> 1]

\* mutant: onError is called however the promise settles
_tryThenAlways(settled, onError) ==
    LET k == onErrorReturnNull(onError, settled.val) IN
    IF settled.kind = "fulfilled"
    THEN [out |-> Fulfilled(settled.val), cp |-> k.cp, cbArgs |-> k.cbArgs]
    ELSE [out |-> IF k.out.kind = "raised"
                  THEN Rejected(k.out.val) ELSE Fulfilled(k.out.val),
          cp |-> k.cp, cbArgs |-> k.cbArgs]

\* src/index.ts:39-45: the reaction of rtn.then(...) to the settled promise
_tryThen(settled, onError) ==
    IF settled.kind = "fulfilled"
    THEN [out |-> Fulfilled(settled.val), cp |-> NoResult, cbArgs |-> <<>>]
    ELSE LET k == onErrorReturnNull(onError, settled.val) IN
         [out |-> IF k.out.kind = "raised"
                  THEN Rejected(k.out.val) ELSE Fulfilled(k.out.val),
          cp |-> k.cp, cbArgs |-> k.cbArgs]

\* mutant: a handler that raised gives its failure record through a promise
_catchDeferredFailure(handler) ==
    LET result == handlerRun(handler) IN
    IF result.kind = "value"
    THEN IF isPromise(result.val)
         THEN [pc |-> "then", out |-> Pending, rtn |-> result.val,
               hp |-> Pending, hRuns |-> 1]
         ELSE [pc |-> "done",
               out |-> Returned(CatchResult(result.val, NULL, TRUE)),
               rtn |-> result.val, hp |-> NoResult, hRuns |-> 1]
    ELSE [pc |-> "done", out |-> Fulfilled(CatchResult(NULL, result.val, FALSE)),
          rtn |-> UNDEFINED, hp |-> NoResult, hRuns |-> 1]

\* src/index.ts:79-97: the run of _catch(handler) up to its return
_catch(handler) ==
    LET result == handlerRun(handler) IN
    IF result.kind = "value"
    THEN IF isPromise(result.val)
         THEN [pc |-> "then", out |-> Pending, rtn |-> result.val,
               hp |-> Pending, hRuns |-> 1]
         ELSE [pc |-> "done",
               out |-> Returned(CatchResult(result.val, NULL, TRUE)),
               rtn |-> result.val, hp |-> NoResult, hRuns |-> 1]
    ELSE [pc |-> "done", out |-> Returned(CatchResult(NULL, result.val, FALSE)),
          rtn |-> UNDEFINED, hp |-> NoResult, hRuns |-> 1]

\* mutant: then() is given no rejection handler
_catchThenNoReject(settled) ==
    IF settled.kind = "fulfilled"
    THEN Fulfilled(CatchResult(settled.val, NULL, TRUE))
    ELSE Rejected(settled.val)

\* src/index.ts:86-89: the reaction of result.then(...) to the settled promise
_catchThen(settled) ==
    IF settled.kind = "fulfilled"
    THEN Fulfilled(CatchResult(settled.val, NULL, TRUE))
    ELSE Fulfilled(CatchResult(NULL, settled.val, FALSE))

Invoke_try(c, handler, onError) ==
    /\ CanInvoke(c)
    /\ LET t == _try(handler, onError) IN
       calls' = [calls EXCEPT ![c] =
                   [@ EXCEPT !.api = "_try", !.h = handler, !.cb = onError,
                             !.pc = t.pc, !.rtn = t.rtn, !.hp = t.hp,
                             !.cp = t.cp, !.out = t.out, !.hRuns = t.hRuns,
                             !.cbArgs = t.cbArgs]]
    /\ UNCHANGED <<error, sel, probes>>

Invoke_catch(c, handler) ==
    /\ CanInvoke(c)
    /\ LET t == _catch(handler) IN
       calls' = [calls EXCEPT ![c] =
                   [@ EXCEPT !.api = "_catch", !.h = handler,
                             !.pc = t.pc, !.rtn = t.rtn, !.hp = t.hp,
                             !.out = t.out, !.hRuns = t.hRuns]]
    /\ UNCHANGED <<error, sel, probes>>

Then_try(c) ==
    /\ calls[c].api = "_try"
    /\ calls[c].pc = "then"
    /\ calls[c].hp.kind # "pending"
    /\ LET t == _tryThen(calls[c].hp, calls[c].cb) IN
       calls' = [calls EXCEPT ![c] =
                   [@ EXCEPT !.pc = "done", !.out = t.out, !.cp = t.cp,
                             !.cbArgs = t.cbArgs]]
    /\ UNCHANGED <<error, sel, probes>>

Then_catch(c) ==
    /\ calls[c].api = "_catch"
    /\ calls[c].pc = "then"
    /\ calls[c].hp.kind # "pending"
    /\ calls' = [calls EXCEPT ![c] =
                   [@ EXCEPT !.pc = "done", !.out = _catchThen(calls[c].hp)]]
    /\ UNCHANGED <<error, sel, probes>>

-----------------------------------------------------------------------------

Next ==
    \/ \E c \in 1..MaxCalls, fn \in Handlers, cb \in Callbacks :
          InvokeTrySync(c, fn, cb)
    \/ \E c \in 1..MaxCalls, fn \in Handlers : InvokeCatchSync(c, fn)
    \/ \E c \in 1..MaxCalls, fn \in Handlers \cup PromiseHandlers,
          cb \in Callbacks :
          InvokeTryAsync(c, fn, cb)
    \/ \E c \in 1..MaxCalls, fn \in Handlers \cup PromiseHandlers :
          InvokeCatchAsync(c, fn)
    \/ \E c \in 1..MaxCalls, fn \in Handlers, cb \in Callbacks :
          Invoke_try(c, fn, cb)
    \/ \E c \in 1..MaxCalls, fn \in Handlers : Invoke_catch(c, fn)
    \/ \E c \in Calls : TryAsyncResume(c)
    \/ \E c \in Calls : TryAsyncResumeCb(c)
    \/ \E c \in Calls : CatchAsyncResume(c)
    \/ \E c \in Calls : Then_try(c)
    \/ \E c \in Calls : Then_catch(c)
    \/ \E c \in Calls : SettleHandler(c)
    \/ \E c \in Calls : SettleCallback(c)

Spec == Init /\ [][Next]_vars

\* the same wrappers, several invocations in flight together
NextConcurrent ==
    \/ \E c \in 1..MaxConcurrent, fn \in ConcurrentHandlers,
          cb \in ConcurrentCallbacks :
          InvokeTrySync(c, fn, cb)
    \/ \E c \in 1..MaxConcurrent, fn \in ConcurrentHandlers :
          InvokeCatchSync(c, fn)
    \/ \E c \in 1..MaxConcurrent,
          fn \in ConcurrentHandlers \cup ConcurrentPromiseHandlers,
          cb \in ConcurrentCallbacks :
          InvokeTryAsync(c, fn, cb)
    \/ \E c \in 1..MaxConcurrent,
          fn \in ConcurrentHandlers \cup ConcurrentPromiseHandlers :
          InvokeCatchAsync(c, fn)
    \/ \E c \in 1..MaxConcurrent, fn \in ConcurrentHandlers,
          cb \in ConcurrentCallbacks :
          Invoke_try(c, fn, cb)
    \/ \E c \in 1..MaxConcurrent, fn \in ConcurrentHandlers :
          Invoke_catch(c, fn)
    \/ \E c \in Calls : TryAsyncResume(c)
    \/ \E c \in Calls : TryAsyncResumeCb(c)
    \/ \E c \in Calls : CatchAsyncResume(c)
    \/ \E c \in Calls : Then_try(c)
    \/ \E c \in Calls : Then_catch(c)
    \/ \E c \in Calls : SettleHandler(c)
    \/ \E c \in Calls : SettleCallback(c)

SpecConcurrent == Init /\ [][NextConcurrent]_vars

-----------------------------------------------------------------------------
(* The selectors _try(runTime) and _catch(runTime), and the use the README  *)
(* makes of them: _try("sync")(fn, errorHandler).  The selected wrapper is  *)
(* called over the inputs of SpecConcurrent.                                *)

\* the four exported wrappers, as function values
TRYSYNC    == [ty |-> "function", id |-> "trySync",    then |-> "undefined"]
TRYASYNC   == [ty |-> "function", id |-> "tryAsync",   then |-> "undefined"]
CATCHSYNC  == [ty |-> "function", id |-> "catchSync",  then |-> "undefined"]
CATCHASYNC == [ty |-> "function", id |-> "catchAsync", then |-> "undefined"]

\* new Error(`Unsupported run time: ${runTime}`)
UNSUPPORTED ==
    [ty |-> "object", id |-> "Error:Unsupported run time", then |-> "undefined"]

\* the tags a caller may pass; TypeScript only admits the first two
RunTimes == {"sync", "async", "bogus"}

\* mutant: the default branch falls back to the asynchronous wrapper
_tryRunTimeFallback(runTime) ==
    CASE runTime = "sync"  -> Returned(TRYSYNC)
      [] OTHER             -> Returned(TRYASYNC)

\* src/index.ts:332-341
_tryRunTime(runTime) ==
    CASE runTime = "sync"  -> Returned(TRYSYNC)
      [] runTime = "async" -> Returned(TRYASYNC)
      [] OTHER             -> Raised(UNSUPPORTED)

\* src/index.ts:357-366
_catchRunTime(runTime) ==
    CASE runTime = "sync"  -> Returned(CATCHSYNC)
      [] runTime = "async" -> Returned(CATCHASYNC)
      [] OTHER             -> Raised(UNSUPPORTED)

Select_try(runTime) ==
    /\ sel' = [selector |-> "_try", runTime |-> runTime,
               out |-> _tryRunTime(runTime)]
    /\ UNCHANGED <<calls, error, probes>>

Select_catch(runTime) ==
    /\ sel' = [selector |-> "_catch", runTime |-> runTime,
               out |-> _catchRunTime(runTime)]
    /\ UNCHANGED <<calls, error, probes>>

\* the call of the function the selector returned
SelectedTrySync(c, fn, errorHandler) ==
    /\ sel.out = Returned(TRYSYNC)
    /\ InvokeTrySync(c, fn, errorHandler)

SelectedTryAsync(c, fn, errorHandler) ==
    /\ sel.out = Returned(TRYASYNC)
    /\ InvokeTryAsync(c, fn, errorHandler)

SelectedCatchSync(c, fn) ==
    /\ sel.out = Returned(CATCHSYNC)
    /\ InvokeCatchSync(c, fn)

SelectedCatchAsync(c, fn) ==
    /\ sel.out = Returned(CATCHASYNC)
    /\ InvokeCatchAsync(c, fn)

NextSelect ==
    \/ \E runTime \in RunTimes : Select_try(runTime)
    \/ \E runTime \in RunTimes : Select_catch(runTime)
    \/ \E c \in 1..MaxCalls, fn \in ConcurrentHandlers,
          cb \in ConcurrentCallbacks :
          SelectedTrySync(c, fn, cb)
    \/ \E c \in 1..MaxCalls,
          fn \in ConcurrentHandlers \cup ConcurrentPromiseHandlers,
          cb \in ConcurrentCallbacks :
          SelectedTryAsync(c, fn, cb)
    \/ \E c \in 1..MaxCalls, fn \in ConcurrentHandlers :
          SelectedCatchSync(c, fn)
    \/ \E c \in 1..MaxCalls,
          fn \in ConcurrentHandlers \cup ConcurrentPromiseHandlers :
          SelectedCatchAsync(c, fn)
    \/ \E c \in Calls : TryAsyncResume(c)
    \/ \E c \in Calls : TryAsyncResumeCb(c)
    \/ \E c \in Calls : CatchAsyncResume(c)
    \/ \E c \in Calls : SettleHandler(c)
    \/ \E c \in Calls : SettleCallback(c)

SpecSelect == Init /\ [][NextSelect]_vars

-----------------------------------------------------------------------------
(* isPromise called directly, on any value of the language.                 *)

TRUEV     == [ty |-> "boolean",  id |-> "true",  then |-> "undefined"]
FALSEV    == [ty |-> "boolean",  id |-> "false", then |-> "undefined"]
EMPTY     == [ty |-> "string",   id |-> "",      then |-> "undefined"]
NAN       == [ty |-> "number",   id |-> "NaN",   then |-> "undefined"]
SYMBOL    == [ty |-> "symbol",   id |-> "Symbol()", then |-> "undefined"]
\* a string, in a program that has defined String.prototype.then
STRTHEN   == [ty |-> "string",   id |-> "str",   then |-> "function"]
\* { then: 1 }
OBJTHEN   == [ty |-> "object",   id |-> "{then: 1}", then |-> "number"]
\* { then() {} }, a thenable that is no Promise
THENABLE  == [ty |-> "object",   id |-> "{then() {}}", then |-> "function"]
\* () => 1, and the same function after f.then = () => {}
FN        == [ty |-> "function", id |-> "() => 1", then |-> "undefined"]
FNTHEN    == [ty |-> "function", id |-> "f.then = () => {}", then |-> "function"]
\* { get then() { throw new Error("x") } }: reading the member runs the getter
GETTER    == [ty |-> "object",   id |-> "{get then() {throw}}", then |-> "throws"]
\* what reading a property of null or undefined throws
TYPEERROR == [ty |-> "object",   id |-> "TypeError", then |-> "undefined"]

ProbeVals ==
    {NULL, UNDEFINED, ZERO, ONE, NAN, TRUEV, FALSEV, EMPTY, SYMBOL, STRTHEN,
     ERR, OBJTHEN, PROMISE, THENABLE, FN, FNTHEN, GETTER}

Bool(b) == IF b THEN TRUEV ELSE FALSEV

\* obj.then: a TypeError on null and undefined, what the getter throws when
\* the member is an accessor that throws, the member's typeof otherwise
ReadThen(obj) ==
    IF obj.id \in {"null", "undefined"} THEN Raised(TYPEERROR)
    ELSE IF obj.then = "throws" THEN Raised(ERR)
    ELSE Returned(obj.then)

\* src/index.ts:1-7, evaluated left to right: && stops at the first false
isPromiseCall(obj) ==
    IF ~Truthy(obj) THEN Returned(FALSEV)
    ELSE IF ~(obj.ty = "object" \/ obj.ty = "function") THEN Returned(FALSEV)
    ELSE LET then == ReadThen(obj)
         IN  IF then.kind = "raised" THEN then
             ELSE Returned(Bool(then.val = "function"))

Probe(obj) ==
    /\ Len(probes) < MaxProbes
    /\ probes' = Append(probes, [obj |-> obj, out |-> isPromiseCall(obj)])
    /\ UNCHANGED <<calls, error, sel>>

NextIsPromise == \E obj \in ProbeVals : Probe(obj)

SpecIsPromise == Init /\ [][NextIsPromise]_vars

-----------------------------------------------------------------------------
(* Vocabulary of the properties.                                            *)

SyncApis       == {"trySync", "catchSync"}
TryApis        == {"trySync", "tryAsync", "_try"}
StructuredApis == {"catchSync", "catchAsync", "_catch"}

Done(c) == calls[c].pc = "done"

\* the handler of the call raised synchronously / its promise rejects
Throws(call)  == call.h.mode = "throw"
Rejects(call) == call.h.mode = "reject"

(* The handler failed, as the wrapper called sees it: the synchronous       *)
(* wrappers never look at a promise, so only a raised error is a failure    *)
(* to them.                                                                 *)
Fails(call) ==
    IF call.api \in SyncApis THEN Throws(call) ELSE Throws(call) \/ Rejects(call)

\* the wrapper's result is deferred
DeferredOut(call) == call.out.kind \in {"pending", "fulfilled", "rejected"}

\* the result as it reaches the caller: returned now, or resolved later
Yields(call, v) ==
    IF call.api \in SyncApis \/ (call.api \in {"_try", "_catch"} /\ ~isPromise(call.rtn))
    THEN call.out = Returned(v)
    ELSE call.out = Fulfilled(v)

\* the error callback ended without raising and without a rejected promise
CompletesNormally(cb) == cb \in {"ok", "asyncOk"}

-----------------------------------------------------------------------------
(* C1: whenever the handler raises, or its promise rejects, with e, the     *)
(* structured wrappers catchSync, catchAsync and _catch(handler) give       *)
(* exactly {value: null, error: e, ok: false}, for every e.                 *)
C1_FailureRecord ==
    \A c \in Calls :
        (Done(c) /\ calls[c].api \in StructuredApis /\ Fails(calls[c]))
          => Yields(calls[c], CatchResult(NULL, calls[c].h.val, FALSE))

-----------------------------------------------------------------------------
(* C2, as stated: in every structured result exactly one of value and       *)
(* error is non-null, and ok is true iff value is non-null and error null.  *)
C2_ExactlyOneNonNull ==
    \A c \in Calls :
        (Done(c) /\ calls[c].api \in StructuredApis) =>
            LET r == calls[c].out.val IN
            /\ (r.value # NULL) # (r.error # NULL)
            /\ r.ok <=> (r.value # NULL /\ r.error = NULL)

(* C2, amended: in every structured result value and error are never both  *)
(* non-null, error is null when ok is true and value is null when ok is     *)
(* false (a handler that returns null gives {null, null, true}).            *)
C2_AtMostOneNonNull ==
    \A c \in Calls :
        (Done(c) /\ calls[c].api \in StructuredApis) =>
            LET r == calls[c].out.val IN
            /\ ~(r.value # NULL /\ r.error # NULL)
            /\ r.ok => r.error = NULL
            /\ ~r.ok => r.value = NULL

\* a handler returned null and catchSync reported success
C2_Witness ==
    \E c \in Calls :
        /\ Done(c) /\ calls[c].api = "catchSync"
        /\ calls[c].h.mode = "return" /\ calls[c].h.val = NULL
        /\ calls[c].out = Returned(CatchResult(NULL, NULL, TRUE))

-----------------------------------------------------------------------------
(* C3: when the handler returns v (or its promise resolves to v), trySync,  *)
(* tryAsync and _try yield exactly v, and catchSync, catchAsync and _catch  *)
(* yield exactly {value: v, error: null, ok: true}.  To the synchronous     *)
(* wrappers a returned promise is the value v itself.                       *)
ReturnedValue(call) ==
    IF call.api \in SyncApis /\ call.h.mode # "return" THEN PROMISE
    ELSE call.h.val

C3_SuccessValue ==
    \A c \in Calls :
        (Done(c) /\ ~Fails(calls[c])) =>
            LET v == ReturnedValue(calls[c]) IN
            /\ calls[c].api \in TryApis => Yields(calls[c], v)
            /\ calls[c].api \in StructuredApis
                 => Yields(calls[c], CatchResult(v, NULL, TRUE))

\* the value a handler's promise resolved to came out of catchAsync
C3_Witness ==
    \E c \in Calls :
        /\ Done(c) /\ calls[c].api = "catchAsync" /\ calls[c].h.callable
        /\ calls[c].h.mode = "resolve" /\ calls[c].hp = Fulfilled(ONE)
        /\ calls[c].out = Fulfilled(CatchResult(ONE, NULL, TRUE))

-----------------------------------------------------------------------------
(* C4: when the handler raises or rejects with e and the error callback     *)
(* completes normally, trySync, tryAsync and _try yield null and the        *)
(* callback has been called exactly once, with e; it is never called more   *)
(* than once.                                                               *)
C4_NullAndCallbackOnce ==
    \A c \in Calls :
        /\ Len(calls[c].cbArgs) <= 1
        /\ (/\ Done(c) /\ calls[c].api \in TryApis /\ Fails(calls[c])
            /\ CompletesNormally(calls[c].cb))
             => /\ Yields(calls[c], NULL)
                /\ calls[c].cbArgs = <<calls[c].h.val>>

\* a rejection reached the callback of _try, which resolved to null
C4_Witness ==
    \E c \in Calls :
        /\ Done(c) /\ calls[c].api = "_try" /\ Rejects(calls[c])
        /\ calls[c].cb = "ok" /\ calls[c].cbArgs = <<ERR>>
        /\ calls[c].out = Fulfilled(NULL)

-----------------------------------------------------------------------------
(* C5: in tryAsync and _try, when the handler's promise rejects and an      *)
(* error callback is present, the wrapper's promise is settled only after   *)
(* the callback has run and, when the callback returned a promise, after    *)
(* that promise has settled.                                                *)
C5_CallbackAwaited ==
    \A c \in Calls :
        (/\ calls[c].api \in {"tryAsync", "_try"} /\ Rejects(calls[c])
         /\ calls[c].cb # "none"
         /\ calls[c].out.kind \in {"fulfilled", "rejected"})
          => /\ Len(calls[c].cbArgs) = 1
             /\ calls[c].cp.kind # "pending"

-----------------------------------------------------------------------------
(* C6: a failure of the error callback is never swallowed.  When the        *)
(* handler raised synchronously, trySync and _try raise the callback's      *)
(* error; when the handler failed in tryAsync, or its promise rejected in   *)
(* _try, a callback that raises or whose promise rejects makes the          *)
(* wrapper's promise reject.                                                *)
C6_CallbackFailurePropagates ==
    \A c \in Calls :
        /\ (/\ Done(c) /\ calls[c].api \in {"trySync", "_try"}
            /\ Throws(calls[c]) /\ calls[c].cb = "throw")
             => calls[c].out = Raised(CBERR)
        /\ (/\ Done(c)
            /\ \/ calls[c].api = "tryAsync" /\ Fails(calls[c])
               \/ calls[c].api = "_try" /\ Rejects(calls[c])
            /\ calls[c].cb \in {"throw", "asyncReject"})
             => calls[c].out = Rejected(CBERR)

-----------------------------------------------------------------------------
(* C7: with no error callback, or one that completes normally, no wrapper   *)
(* raises and no promise a wrapper returned rejects, whatever the handler   *)
(* does; a finished call has returned, or resolved to, a value.             *)
C7_NeverReraises ==
    \A c \in Calls :
        (calls[c].api \in StructuredApis \/ calls[c].cb = "none"
           \/ CompletesNormally(calls[c].cb))
          => /\ calls[c].out.kind \notin {"raised", "rejected"}
             /\ calls[c].tryP.kind # "rejected"
             /\ Done(c) => calls[c].out.kind \in {"value", "fulfilled"}
             /\ (Done(c) /\ Fails(calls[c]) /\ calls[c].api \in TryApis)
                  => calls[c].out.val = NULL

\* a rejection, and a callback's promise, ended in tryAsync resolving to null
C7_Witness ==
    \E c \in Calls :
        /\ Done(c) /\ calls[c].api = "tryAsync" /\ Rejects(calls[c])
        /\ calls[c].cb = "asyncOk" /\ calls[c].hp = Rejected(ERR)
        /\ calls[c].cp = Fulfilled(UNDEFINED)
        /\ calls[c].out = Fulfilled(NULL)

-----------------------------------------------------------------------------
-----------------------------------------------------------------------------
(* C9: every invocation of a wrapper with a callable handler runs that      *)
(* handler exactly once, whatever its outcome, so after N invocations with  *)
(* the same handler the handler has run N times.                            *)
Invoked(c) == calls[c].pc # "idle"

RECURSIVE RunsOf(_, _)
RunsOf(fn, n) ==
    IF n = 0 THEN 0
    ELSE RunsOf(fn, n - 1)
           + (IF Invoked(n) /\ calls[n].h = fn THEN calls[n].hRuns ELSE 0)

C9_HandlerRunsOnce ==
    /\ \A c \in Calls :
          (Invoked(c) /\ calls[c].h.callable) => calls[c].hRuns = 1
    /\ \A fn \in Handlers :
          RunsOf(fn, Cardinality(Calls))
            = Cardinality({c \in Calls : Invoked(c) /\ calls[c].h = fn})

\* the same failing handler went through two wrappers, and ran twice
C9_Witness ==
    \E c, d \in Calls :
        /\ c # d /\ Done(c) /\ Done(d)
        /\ calls[c].h = calls[d].h /\ Throws(calls[c])
        /\ calls[c].api = "tryAsync" /\ calls[d].api = "catchSync"
        /\ RunsOf(calls[c].h, Cardinality(Calls)) >= 2

-----------------------------------------------------------------------------
(* C10: invocations of catchAsync and catchSync that are in flight          *)
(* together do not interact: the record of each is the one its own handler  *)
(* gives when it runs alone, and a non-null error in a record is the error  *)
(* of that invocation's own handler.                                        *)
OwnRecord(call) ==
    IF Fails(call)
    THEN IF Truthy(call.h.val) THEN CatchResult(NULL, call.h.val, FALSE)
         ELSE CatchResult(NULL, NULL, TRUE)
    ELSE CatchResult(ReturnedValue(call), NULL, TRUE)

C10_NoInterference ==
    \A c \in Calls :
        (Done(c) /\ calls[c].api \in {"catchSync", "catchAsync"}) =>
            /\ Yields(calls[c], OwnRecord(calls[c]))
            /\ calls[c].out.val.error # NULL
                 => Fails(calls[c]) /\ calls[c].out.val.error = calls[c].h.val

(* a catchAsync that has captured its error is still suspended while a      *)
(* later catchAsync has finished with success                               *)
C10_Witness ==
    \E c, d \in Calls :
        /\ c < d
        /\ calls[c].api = "catchAsync" /\ Fails(calls[c])
        /\ calls[c].pc \in {"awaitCb", "awaitTry"} /\ calls[c].cbArgs = <<ERR>>
        /\ calls[d].api = "catchAsync" /\ Done(d)
        /\ calls[d].out = Fulfilled(CatchResult(ONE, NULL, TRUE))

-----------------------------------------------------------------------------
(* C11: the selectors are a pure lookup: _try("sync") is trySync,           *)
(* _try("async") is tryAsync, _catch("sync") is catchSync, _catch("async")  *)
(* is catchAsync, any other tag raises the 'Unsupported run time' error at  *)
(* once, and a selection runs no handler and no error callback: it leaves   *)
(* every invocation as it was.                                              *)
Lookup(selector, runTime) ==
    IF runTime \notin {"sync", "async"} THEN Raised(UNSUPPORTED)
    ELSE IF selector = "_try"
    THEN Returned(IF runTime = "sync" THEN TRYSYNC ELSE TRYASYNC)
    ELSE Returned(IF runTime = "sync" THEN CATCHSYNC ELSE CATCHASYNC)

C11_PureLookup ==
    /\ [](sel # NoSelection => sel.out = Lookup(sel.selector, sel.runTime))
    /\ [][sel' # sel => UNCHANGED <<calls, error>>]_vars

\* an unsupported tag was refused while an invocation was suspended
C11_Witness ==
    /\ sel = [selector |-> "_try", runTime |-> "bogus",
              out |-> Raised(UNSUPPORTED)]
    /\ \E c \in Calls :
          /\ calls[c].api = "tryAsync" /\ calls[c].pc = "awaitHandler"
          /\ calls[c].hRuns = 1

-----------------------------------------------------------------------------
(* C12: isPromise is total and free of side effects: called on any value it *)
(* returns a boolean and never raises; it returns true exactly when the     *)
(* value is not null, is of object or function kind and has a callable      *)
(* then, so false for primitives, records without a callable then, null and *)
(* undefined; it is the test the wrappers make; and a call leaves every     *)
(* invocation and the selection as they were.                               *)
C12_IsPromiseTotal ==
    /\ \A i \in 1..Len(probes) :
          LET obj == probes[i].obj
              out == probes[i].out
          IN  /\ out.kind = "value"
              /\ out.val \in {TRUEV, FALSEV}
              /\ out.val = TRUEV <=>
                    /\ obj # NULL
                    /\ obj.ty \in {"object", "function"}
                    /\ obj.then = "function"
              /\ out.val = Bool(isPromise(obj))
    /\ probes # <<>> =>
          /\ calls = [c \in Calls |-> Idle]
          /\ error = [c \in Calls |-> NULL]
          /\ sel = NoSelection

-----------------------------------------------------------------------------
(* C13: the error callback is invoked only on failure: while and after an   *)
(* invocation of trySync, tryAsync or _try whose handler returns normally,  *)
(* or whose promise resolves, the callback has not been called and no       *)
(* promise of it exists, on the synchronous and on the asynchronous path.   *)
C13_CallbackOnlyOnFailure ==
    \A c \in Calls :
        (calls[c].api \in TryApis /\ ~Fails(calls[c]))
          => /\ calls[c].cbArgs = <<>>
             /\ calls[c].cp = NoResult

\* the promise of _try's handler resolved and a callback that would raise
\* was never called
C13_Witness ==
    \E c \in Calls :
        /\ Done(c) /\ calls[c].api = "_try" /\ calls[c].h.mode = "resolve"
        /\ calls[c].cb = "throw" /\ calls[c].cbArgs = <<>>
        /\ calls[c].out = Fulfilled(calls[c].h.val)

-----------------------------------------------------------------------------
(* C14: tryAsync always returns a promise and never raises synchronously,   *)
(* for every form of handler: a promise is awaited without being invoked, a *)
(* callable that returns a promise is awaited, a callable that returns a    *)
(* plain value resolves to that value, and a callable that raises           *)
(* synchronously has the error callback invoked with the error and awaited. *)
(* As stated, the last form always resolves to null; as amended, it         *)
(* resolves to null when the callback is absent or completes normally and   *)
(* rejects with the callback's error otherwise.                             *)

\* what the four forms share: the result is a promise, settled only after
\* what it awaits
TryAsyncDeferred(call) ==
    /\ DeferredOut(call)
    /\ ~call.h.callable => call.hRuns = 0
    /\ call.h.callable => call.hRuns = 1
    /\ call.h.mode \in {"resolve", "reject"} =>
          /\ call.rtn = PROMISE
          /\ call.hp.kind = "pending" => call.out = Pending
    /\ (call.pc = "done" /\ call.h.mode \in {"return", "resolve"}) =>
          call.out = Fulfilled(call.h.val)
    /\ Throws(call) =>
          /\ call.cb # "none" => call.cbArgs = <<call.h.val>>
          /\ call.cp.kind = "pending" => call.out = Pending

C14_AlwaysResolvesNull ==
    \A c \in Calls :
        calls[c].api = "tryAsync"
          => /\ TryAsyncDeferred(calls[c])
             /\ (Done(c) /\ Throws(calls[c])) => calls[c].out = Fulfilled(NULL)

C14_AlwaysDeferred ==
    \A c \in Calls :
        calls[c].api = "tryAsync"
          => /\ TryAsyncDeferred(calls[c])
             /\ (Done(c) /\ Throws(calls[c])) =>
                   IF calls[c].cb = "none" \/ CompletesNormally(calls[c].cb)
                   THEN calls[c].out = Fulfilled(NULL)
                   ELSE calls[c].out = Rejected(CBERR)

\* the handler raised synchronously, the callback's promise was awaited and
\* the promise of tryAsync resolved to null
C14_Witness ==
    \E c \in Calls :
        /\ Done(c) /\ calls[c].api = "tryAsync" /\ Throws(calls[c])
        /\ calls[c].cb = "asyncOk" /\ calls[c].cbArgs = <<ERR>>
        /\ calls[c].cp = Fulfilled(UNDEFINED)
        /\ calls[c].out = Fulfilled(NULL)

-----------------------------------------------------------------------------
(* C15: trySync performs no detection of promises: when its handler returns *)
(* a promise, trySync has returned that same promise at once, and whether   *)
(* the promise is pending, fulfilled or rejected the error callback has not *)
(* been called and the result is not null; catchSync has returned           *)
(* {value: the promise, error: null, ok: true} and captured no error.       *)
C15_NoDeferredDetection ==
    \A c \in Calls :
        (calls[c].api \in SyncApis /\ calls[c].h.mode \in {"resolve", "reject"})
          => /\ Done(c)
             /\ calls[c].rtn = PROMISE
             /\ calls[c].cbArgs = <<>>
             /\ calls[c].cp = NoResult
             /\ calls[c].api = "trySync" => calls[c].out = Returned(PROMISE)
             /\ calls[c].api = "catchSync" =>
                   /\ calls[c].out = Returned(CatchResult(PROMISE, NULL, TRUE))
                   /\ error[ErrorCell(c)] = NULL

\* the promise trySync returned has rejected and the callback was not called
C15_Witness ==
    \E c \in Calls :
        /\ calls[c].api = "trySync" /\ calls[c].cb = "ok"
        /\ calls[c].hp = Rejected(ERR)
        /\ calls[c].out = Returned(PROMISE) /\ calls[c].cbArgs = <<>>

-----------------------------------------------------------------------------
(* C16: in _try({handler, onError}) and _catch(handler) the shape of the    *)
(* result follows the run of the handler: the result is a promise exactly   *)
(* when the handler returned one.  A handler that raises e synchronously    *)
(* gives no promise: the wrapper has finished within the call, onError has  *)
(* been called with e before it returned, and _catch has returned           *)
(* {value: null, error: e, ok: false}.  As stated, _try has then always     *)
(* returned null; as amended, it has returned null unless onError itself    *)
(* raised, and then it has raised onError's error, synchronously as well.   *)

\* what both statements share
SyncFailureShape(call) ==
    /\ DeferredOut(call) <=> isPromise(call.rtn)
    /\ Throws(call) =>
          /\ call.pc = "done"
          /\ ~DeferredOut(call)
          /\ call.hp = NoResult
          /\ call.hRuns = 1
          /\ call.api = "_try" =>
                call.cbArgs = IF call.cb = "none" THEN <<>> ELSE <<call.h.val>>
          /\ call.api = "_catch" =>
                call.out = Returned(CatchResult(NULL, call.h.val, FALSE))

C16_SyncFailureAlwaysNull ==
    \A c \in Calls :
        calls[c].api \in {"_try", "_catch"}
          => /\ SyncFailureShape(calls[c])
             /\ (calls[c].api = "_try" /\ Throws(calls[c])) =>
                   calls[c].out = Returned(NULL)

C16_SyncFailurePlain ==
    \A c \in Calls :
        calls[c].api \in {"_try", "_catch"}
          => /\ SyncFailureShape(calls[c])
             /\ (calls[c].api = "_try" /\ Throws(calls[c])) =>
                   IF calls[c].cb = "throw"
                   THEN calls[c].out = Raised(CBERR)
                   ELSE calls[c].out = Returned(NULL)

\* _try returned null while the promise of onError, called with the error
\* the handler raised, was still pending
C16_Witness ==
    \E c \in Calls :
        /\ Done(c) /\ calls[c].api = "_try" /\ Throws(calls[c])
        /\ calls[c].cb = "asyncOk" /\ calls[c].cbArgs = <<ERR>>
        /\ calls[c].cp = Pending
        /\ calls[c].out = Returned(NULL)

====
